---- MODULE Spec2Model ----
(***************************************************************************)
(* StockPulse data-access functions (src/utils.py) as state machines:      *)
(*   search_stock, get_world_indices, get_top_movers, get_stock_data.      *)
(* The market data provider (yfinance) is the environment: every provider  *)
(* call nondeterministically raises, returns nothing, or returns a record. *)
(* Strings are sequences of one-character strings, so that the string      *)
(* operations of the code (upper, lower, replace, split, capitalize, join, *)
(* substring test, concatenation) are computed character by character.     *)
(***************************************************************************)
EXTENDS Integers, Sequences, FiniteSets, TLC

VARIABLES
    query,         \* search_stock: the argument
    pc,            \* search_stock: position in the function body
    vi,            \* search_stock: index of the current variation (1..6)
    si,            \* search_stock: index of the current suffix (1..6)
    fi,            \* search_stock: index of the current common_stocks entry
    results,       \* search_stock: the list `results` (the returned list once done)
    seen_symbols,  \* search_stock: the set `seen_symbols`
    ret,           \* search_stock: "running", "list" (returned a list), "raised"
    probe,         \* the most recent provider call: its ticker and what came back
    calls,         \* number of provider calls (yf.Ticker(..).info) issued so far
    sweepCalls,    \* number of provider calls issued by the variation sweep
    directHit,     \* history: the direct lookup returned a well-formed record
    sweepHits,     \* history: symbols of the well-formed records the sweep received
    fbConsulted,   \* history: the common_stocks table was scanned
    fbProbed,      \* history: indices of the table entries the provider was asked about
    fn,            \* market: the function running, "indices" or "movers"
    bg,            \* market: what the provider answers for the symbols past the first NumFree
    mpc,           \* market: position in the function body
    pos,           \* market: index of the symbol the loop is at
    data,          \* get_world_indices: the list `data`
    gainers,       \* get_top_movers: the list `gainers` of (change_pct, data)
    losers,        \* get_top_movers: the list `losers` of (change_pct, data)
    top_gainers,   \* get_top_movers: first returned frame
    top_losers,    \* get_top_movers: second returned frame
    resp,          \* market: what the provider answered for the most recent symbol
    mret,          \* market: "running", "returned", "raised"
    qualified,     \* history: list positions of the symbols whose answer qualified
    period,        \* get_stock_data: the argument `period`
    interval,      \* get_stock_data: the interval asked of history()
    gpc,           \* get_stock_data: position in the function body
    gresp,         \* get_stock_data: what the provider answered
    ghist,         \* get_stock_data: first value returned
    ginfo,         \* get_stock_data: second value returned
    gret,          \* get_stock_data: "running", "returned", "raised"
    search_query,  \* app: the value of the text input (kept across reruns)
    apc,           \* app: position of the script run in main()
    appResults,    \* app: the list search_stock returned in this run
    selected_indices_row,  \* app: st.session_state.selected_indices_row
    selected_gainers_row,  \* app: st.session_state.selected_gainers_row
    selected_losers_row,   \* app: st.session_state.selected_losers_row
    entered,       \* history: this run has called show_stock_details
    executed       \* history: the statements of show_stock_details this run executed

searchVars == <<query, pc, vi, si, fi, results, seen_symbols, ret, probe, calls,
                sweepCalls, directHit, sweepHits, fbConsulted, fbProbed>>

marketVars == <<fn, bg, mpc, pos, data, gainers, losers, top_gainers, top_losers,
                resp, mret, qualified>>

fetchVars == <<period, interval, gpc, gresp, ghist, ginfo, gret>>

appVars == <<search_query, apc, appResults, selected_indices_row, selected_gainers_row,
             selected_losers_row, entered, executed>>

vars == <<searchVars, marketVars, fetchVars, appVars>>

(***************************************************************************)
(* Strings                                                                 *)
(***************************************************************************)
LowerLetters ==
    <<"a","b","c","d","e","f","g","h","i","j","k","l","m",
      "n","o","p","q","r","s","t","u","v","w","x","y","z">>

UpperLetters ==
    <<"A","B","C","D","E","F","G","H","I","J","K","L","M",
      "N","O","P","Q","R","S","T","U","V","W","X","Y","Z">>

LetterIndex(letters, c) ==
    IF \E i \in DOMAIN letters : letters[i] = c
    THEN CHOOSE i \in DOMAIN letters : letters[i] = c
    ELSE 0

\* str.upper() / str.lower() on one ASCII character
UpperChar(c) ==
    IF LetterIndex(LowerLetters, c) # 0 THEN UpperLetters[LetterIndex(LowerLetters, c)] ELSE c

LowerChar(c) ==
    IF LetterIndex(UpperLetters, c) # 0 THEN LowerLetters[LetterIndex(UpperLetters, c)] ELSE c

Upper(s) == [i \in DOMAIN s |-> UpperChar(s[i])]

Lower(s) == [i \in DOMAIN s |-> LowerChar(s[i])]

\* s.replace(" ", to), `to` a string (possibly empty)
RECURSIVE ReplaceSpace(_, _)
ReplaceSpace(s, to) ==
    IF s = <<>> THEN <<>>
    ELSE (IF Head(s) = " " THEN to ELSE <<Head(s)>>) \o ReplaceSpace(Tail(s), to)

\* s.split(): the maximal runs of non-blank characters
RECURSIVE SplitFrom(_, _)
SplitFrom(s, word) ==
    IF s = <<>> THEN (IF word = <<>> THEN <<>> ELSE <<word>>)
    ELSE IF Head(s) = " "
         THEN (IF word = <<>> THEN <<>> ELSE <<word>>) \o SplitFrom(Tail(s), <<>>)
         ELSE SplitFrom(Tail(s), Append(word, Head(s)))

Split(s) == SplitFrom(s, <<>>)

\* word.capitalize(): first character upper-cased, the rest lower-cased
Capitalize(w) ==
    IF w = <<>> THEN <<>> ELSE <<UpperChar(Head(w))>> \o Lower(Tail(w))

\* ' '.join(words)
RECURSIVE JoinSpace(_)
JoinSpace(words) ==
    IF words = <<>> THEN <<>>
    ELSE IF Len(words) = 1 THEN Head(words)
    ELSE Head(words) \o <<" ">> \o JoinSpace(Tail(words))

TitleCase(s) == JoinSpace([i \in DOMAIN Split(s) |-> Capitalize(Split(s)[i])])

\* `sub in s` on strings
Contains(sub, s) ==
    \E i \in 0..(Len(s) - Len(sub)) : SubSeq(s, i + 1, i + Len(sub)) = sub

Range(s) == {s[i] : i \in DOMAIN s}

(***************************************************************************)
(* search_stock                                                            *)
(***************************************************************************)
\* Number of distinct symbols the provider's records may carry
NumSymbols == 2

SymbolPool == <<<<"A","A","P","L">>, <<"S","A","P",".","D","E">>, <<"M","E","T","A">>>>

ProviderSymbols == {SymbolPool[i] : i \in 1..NumSymbols}

\* The long name the provider's records carry
ProviderName == <<"I","n","c">>

\* The queries search_stock is called with
Queries ==
    { <<"T">>,
      <<"e">>,
      <<"T","e">>,
      <<"e","T">>,
      <<"e"," ","T">>,
      <<"z","z">>,
      <<" ","e">>,
      <<"M","e","t","a">> }

NoField == <<>>

\* stock.info: the access raises, or yields a falsy value (None, {}), or a
\* non-empty mapping that may or may not have the keys 'symbol' and 'longName'
Info(kind, hasSymbol, hasLongName, symbol) ==
    [kind |-> kind, hasSymbol |-> hasSymbol, hasLongName |-> hasLongName,
     symbol |-> IF hasSymbol THEN symbol ELSE NoField,
     longName |-> IF hasLongName THEN ProviderName ELSE NoField]

Infos ==
    {Info("raise", FALSE, FALSE, NoField), Info("empty", FALSE, FALSE, NoField)}
    \cup {Info("record", hs, hl, s) : hs \in BOOLEAN, hl \in BOOLEAN, s \in ProviderSymbols}

NoProbe == [ticker |-> <<>>, info |-> Info("none", FALSE, FALSE, NoField)]

\* mutant of WellFormed: the key 'symbol' is not required
WellFormedNameOnly(info) == info.kind = "record" /\ info.hasLongName

\* `info and 'longName' in info and 'symbol' in info`
WellFormed(info) == info.kind = "record" /\ info.hasLongName /\ info.hasSymbol

\* `info and 'longName' in info`
FallbackWellFormed(info) == info.kind = "record" /\ info.hasLongName

\* the tuple (symbol, longName) appended to the result list
Candidate(symbol, longName) == [symbol |-> symbol, name |-> longName]

\* mutant of variations: lower-cased and upper-cased variants swapped
variationsLowerFirst(q) ==
    << q,
       Lower(q),
       ReplaceSpace(q, <<"-">>),
       ReplaceSpace(q, <<>>),
       Upper(q),
       TitleCase(q) >>

variations(q) ==
    << q,
       Upper(q),
       ReplaceSpace(q, <<"-">>),
       ReplaceSpace(q, <<>>),
       Lower(q),
       TitleCase(q) >>

suffixes == << <<>>, <<".","D","E">>, <<".","L">>, <<".","P","A">>, <<".","M","I">>, <<".","M","C">> >>

common_stocks ==
    << [symbol |-> <<"A","A","P","L">>, name |-> <<"A","p","p","l","e">>],
      [symbol |-> <<"M","S","F","T">>, name |-> <<"M","i","c","r","o","s","o","f","t">>],
      [symbol |-> <<"G","O","O","G","L">>, name |-> <<"G","o","o","g","l","e">>],
      [symbol |-> <<"A","M","Z","N">>, name |-> <<"A","m","a","z","o","n">>],
      [symbol |-> <<"N","V","D","A">>, name |-> <<"N","V","I","D","I","A">>],
      [symbol |-> <<"M","E","T","A">>, name |-> <<"M","e","t","a">>],
      [symbol |-> <<"T","S","L","A">>, name |-> <<"T","e","s","l","a">>],
      [symbol |-> <<"N","F","L","X">>, name |-> <<"N","e","t","f","l","i","x">>] >>

\* `query_lower in name.lower()`
NameMatches(q, name) == Contains(Lower(q), Lower(name))

\* mutant of NotSeen: the seen-set is never consulted
NotSeenAlways(symbol, seen) == TRUE

\* `if symbol not in seen_symbols`
NotSeen(symbol, seen) == symbol \notin seen

\* mutant of DirectHitReturns: the direct hit falls through to the sweep
DirectHitFallsThrough == FALSE

\* `return [(info['symbol'], info['longName'])]` inside the direct lookup
DirectHitReturns == TRUE

\* mutant of FallbackNeeded: the table is scanned whatever the sweep found
FallbackAlways(res) == TRUE

\* `if not results`
FallbackNeeded(res) == res = <<>>

\* mutant of Caught: the handlers catch a type the provider's errors are not
CaughtNothing(site) == FALSE

\* mutant of Caught: no try block around the single probe of the sweep
CaughtNotSuffix(site) ==
    site \in {"direct", "variation", "fallback", "outer", "index", "mover", "fetch"}

\* the `except Exception` clause around each provider call, and the outermost one
Caught(site) ==
    site \in {"direct", "suffix", "variation", "fallback", "outer", "index", "mover",
              "fetch"}

\* the try blocks enclosing a provider call, innermost first
HandlerChain(site) ==
    CASE site = "direct"   -> <<"direct", "outer">>
      [] site = "suffix"   -> <<"suffix", "variation", "outer">>
      [] site = "fallback" -> <<"fallback", "outer">>
      [] site = "index"    -> <<"index">>
      [] site = "mover"    -> <<"mover">>
      [] site = "fetch"    -> <<"fetch">>

\* the handler an exception raised at `site` lands in ("uncaught": none)
Landing(site) ==
    LET chain == HandlerChain(site)
        hit == {i \in DOMAIN chain : Caught(chain[i])}
    IN  IF hit = {} THEN "uncaught"
        ELSE chain[CHOOSE i \in hit : \A j \in hit : i <= j]

\* what came back lands in `handler`: "none" when nothing was raised
Lands(info, site) == IF info.kind = "raise" THEN Landing(site) ELSE "none"

\* the outermost handler returns [], an uncaught exception reaches the caller
Abort(handler) ==
    /\ pc' = "done"
    /\ results' = <<>>
    /\ ret' = IF handler = "outer" THEN "list" ELSE "raised"

\* no market function is running
MarketIdle ==
    /\ fn = "none"
    /\ bg = "none"
    /\ mpc = "idle"
    /\ pos = 0
    /\ data = <<>>
    /\ gainers = <<>>
    /\ losers = <<>>
    /\ top_gainers = <<>>
    /\ top_losers = <<>>
    /\ resp = [histRaised |-> FALSE, closes |-> <<>>, info |-> "unused"]
    /\ mret = "idle"
    /\ qualified = {}

\* the application script is not running
AppIdle ==
    /\ search_query = <<>>
    /\ apc = "idle"
    /\ appResults = <<>>
    /\ selected_indices_row = <<>>
    /\ selected_gainers_row = <<>>
    /\ selected_losers_row = <<>>
    /\ entered = FALSE
    /\ executed = <<>>

\* the value None
None == [none |-> TRUE, value |-> <<>>]

\* get_stock_data is not running
FetchIdle ==
    /\ period = "none"
    /\ interval = "none"
    /\ gpc = "idle"
    /\ gresp = [histRaised |-> FALSE, closes |-> <<>>, info |-> "unused"]
    /\ ghist = None
    /\ ginfo = None
    /\ gret = "idle"

SearchInit ==
    /\ query \in Queries
    /\ pc = "direct"
    /\ vi = 1
    /\ si = 1
    /\ fi = 1
    /\ results = <<>>
    /\ seen_symbols = {}
    /\ ret = "running"
    /\ probe = NoProbe
    /\ calls = 0
    /\ sweepCalls = 0
    /\ directHit = FALSE
    /\ sweepHits = {}
    /\ fbConsulted = FALSE
    /\ fbProbed = {}
    /\ MarketIdle
    /\ FetchIdle
    /\ AppIdle

\* lines 104-111: the direct lookup of the raw query
DirectLookup ==
    /\ UNCHANGED <<marketVars, fetchVars, appVars>>
    /\ pc = "direct"
    /\ \E info \in Infos :
        LET handler == Lands(info, "direct") IN
        /\ probe' = [ticker |-> query, info |-> info]
        /\ calls' = calls + 1
        /\ directHit' = WellFormed(info)
        /\ IF handler \in {"outer", "uncaught"}
           THEN Abort(handler)
           ELSE IF handler = "none" /\ WellFormed(info) /\ DirectHitReturns
           THEN /\ results' = <<Candidate(info.symbol, info.longName)>>
                /\ pc' = "done"
                /\ ret' = "list"
           ELSE /\ results' = <<>>
                /\ pc' = "sweep"
                /\ ret' = ret
    /\ UNCHANGED <<query, vi, si, fi, seen_symbols, sweepCalls, sweepHits,
                   fbConsulted, fbProbed>>

\* lines 126-147: one probe of the variation sweep (one iteration of the inner loop)
SweepProbe ==
    /\ UNCHANGED <<marketVars, fetchVars, appVars>>
    /\ pc = "sweep"
    /\ \E info \in Infos :
        LET handler == Lands(info, "suffix")
            fresh == handler = "none" /\ WellFormed(info)
                     /\ NotSeen(info.symbol, seen_symbols)
            lastSuffix == si = Len(suffixes) \/ handler = "variation"
            lastProbe == lastSuffix /\ vi = Len(variations(query))
        IN
        /\ probe' = [ticker |-> variations(query)[vi] \o suffixes[si], info |-> info]
        /\ calls' = calls + 1
        /\ sweepCalls' = sweepCalls + 1
        /\ sweepHits' = IF WellFormed(info) THEN sweepHits \cup {info.symbol} ELSE sweepHits
        /\ IF handler \in {"outer", "uncaught"}
           THEN /\ Abort(handler)
                /\ UNCHANGED <<seen_symbols, vi, si>>
           ELSE /\ seen_symbols' = IF fresh THEN seen_symbols \cup {info.symbol}
                                   ELSE seen_symbols
                /\ results' = IF fresh
                              THEN Append(results, Candidate(info.symbol, info.longName))
                              ELSE results
                /\ si' = IF lastSuffix THEN 1 ELSE si + 1
                /\ vi' = IF lastSuffix /\ ~lastProbe THEN vi + 1 ELSE vi
                /\ pc' = IF lastProbe THEN "check" ELSE "sweep"
                /\ ret' = ret
    /\ UNCHANGED <<query, fi, directHit, fbConsulted, fbProbed>>

\* line 150: `if not results`
CheckResults ==
    /\ UNCHANGED <<marketVars, fetchVars, appVars>>
    /\ pc = "check"
    /\ pc' = IF FallbackNeeded(results) THEN "fallback" ELSE "return"
    /\ fbConsulted' = FallbackNeeded(results)
    /\ UNCHANGED <<query, vi, si, fi, results, seen_symbols, ret, probe, calls,
                   sweepCalls, directHit, sweepHits, fbProbed>>

\* lines 163-172: one entry of the common_stocks table
FallbackEntry ==
    /\ UNCHANGED <<marketVars, fetchVars, appVars>>
    /\ pc = "fallback"
    /\ LET entry == common_stocks[fi]
           next == IF fi = Len(common_stocks) THEN "return" ELSE "fallback"
       IN
       IF NameMatches(query, entry.name)
       THEN \E info \in Infos :
              LET handler == Lands(info, "fallback") IN
              /\ probe' = [ticker |-> entry.symbol, info |-> info]
              /\ calls' = calls + 1
              /\ fbProbed' = fbProbed \cup {fi}
              /\ IF handler \in {"outer", "uncaught"}
                 THEN /\ Abort(handler)
                      /\ fi' = fi
                 ELSE /\ results' = IF handler = "none" /\ FallbackWellFormed(info)
                                    THEN Append(results, Candidate(entry.symbol, info.longName))
                                    ELSE results
                      /\ fi' = IF fi = Len(common_stocks) THEN fi ELSE fi + 1
                      /\ pc' = next
                      /\ ret' = ret
       ELSE /\ fi' = IF fi = Len(common_stocks) THEN fi ELSE fi + 1
            /\ pc' = next
            /\ UNCHANGED <<results, ret, probe, calls, fbProbed>>
    /\ UNCHANGED <<query, vi, si, seen_symbols, sweepCalls, directHit, sweepHits,
                   fbConsulted>>

\* line 174: `return results`
Return ==
    /\ UNCHANGED <<marketVars, fetchVars, appVars>>
    /\ pc = "return"
    /\ pc' = "done"
    /\ ret' = "list"
    /\ UNCHANGED <<query, vi, si, fi, results, seen_symbols, probe, calls,
                   sweepCalls, directHit, sweepHits, fbConsulted, fbProbed>>

SearchNext == DirectLookup \/ SweepProbe \/ CheckResults \/ FallbackEntry \/ Return

SpecSearch == SearchInit /\ [][SearchNext]_vars

(***************************************************************************)
(* Claims about search_stock                                               *)
(***************************************************************************)
Symbols(res) == {res[i].symbol : i \in DOMAIN res}

\* C1: the list search_stock holds and returns never contains two Candidates
\* with the same symbol, whichever tier produced them.
C1_NoDuplicateSymbols ==
    \A i, j \in DOMAIN results : i # j => results[i].symbol # results[j].symbol

\* C1 witness: the sweep has ended with two Candidates and its last probe
\* returned a well-formed record whose symbol was already listed.
C1_Witness ==
    /\ pc = "check"
    /\ Len(results) = 2
    /\ WellFormed(probe.info)
    /\ probe.info.symbol = results[1].symbol

\* C2: when the direct lookup of the raw query returns a record with symbol and
\* long name, search_stock has returned exactly that one Candidate after exactly
\* one provider call: no sweep probe and no fallback probe was issued.
C2_DirectHitSingleCall ==
    directHit =>
        /\ pc = "done"
        /\ ret = "list"
        /\ probe.ticker = query
        /\ results = <<[symbol |-> probe.info.symbol, name |-> probe.info.longName]>>
        /\ calls = 1
        /\ sweepCalls = 0
        /\ fbProbed = {}
        /\ ~fbConsulted

\* C2 witness: a direct hit has been returned.
C2_Witness ==
    /\ directHit
    /\ pc = "done"
    /\ Len(results) = 1
    /\ probe.info.symbol = SymbolPool[2]

IsCandidateList(res) ==
    /\ DOMAIN res = 1..Len(res)
    /\ \A i \in DOMAIN res : DOMAIN res[i] = {"symbol", "name"}

\* C3: search_stock never raises to its caller: whatever the provider does at
\* any probe of any tier, the call ends by returning a list.
C3_NeverRaises ==
    /\ ret # "raised"
    /\ pc = "done" => (ret = "list" /\ IsCandidateList(results))

\* C3 witness: the direct lookup failed, the sweep found nothing, the last
\* fallback probe raised, and the empty list was returned.
C3_Witness ==
    /\ pc = "done"
    /\ ret = "list"
    /\ results = <<>>
    /\ probe.info.kind = "raise"
    /\ Len(common_stocks) \in fbProbed

C4_Query == <<"e"," ","T">>

\* original, upper, space-to-hyphen, space-removed, lower, title-case of "e T"
C4_Variants ==
    << <<"e"," ","T">>, <<"E"," ","T">>, <<"e","-","T">>,
       <<"e","T">>, <<"e"," ","t">>, <<"E"," ","T">> >>

C4_Suffixes ==
    << <<>>, <<".","D","E">>, <<".","L">>, <<".","P","A">>, <<".","M","I">>, <<".","M","C">> >>

\* the k-th ticker of the sweep, variant-major and suffix-minor
C4_Ticker(vs, k) ==
    vs[((k - 1) \div Len(C4_Suffixes)) + 1] \o C4_Suffixes[((k - 1) % Len(C4_Suffixes)) + 1]

\* C4: after a failed direct lookup the sweep issues its probes variant-major
\* (original, upper, space-to-hyphen, space-removed, lower, title-case) and
\* suffix-minor ('', .DE, .L, .PA, .MI, .MC); a probe that returns a record with
\* symbol and long name whose symbol is not yet listed appends that symbol at
\* the end of the list, every other probe leaves the list as it is; so the list
\* holds exactly the symbols of the successful probes, each once, in the order
\* of their first successful probe.
C4_SweepDiscoveryOrder ==
    /\ [][pc = "sweep" =>
            /\ sweepCalls' = sweepCalls + 1
            /\ probe'.ticker = C4_Ticker(variations(query), sweepCalls')
            /\ query = C4_Query => probe'.ticker = C4_Ticker(C4_Variants, sweepCalls')
            /\ results' =
                 IF /\ probe'.info.kind = "record"
                    /\ probe'.info.hasSymbol /\ probe'.info.hasLongName
                    /\ probe'.info.symbol \notin Symbols(results)
                 THEN results \o <<[symbol |-> probe'.info.symbol,
                                    name |-> probe'.info.longName]>>
                 ELSE results]_vars
    /\ [](pc \in {"sweep", "check"} =>
            /\ ~directHit
            /\ Symbols(results) = sweepHits
            /\ Cardinality(sweepHits) = Len(results))

\* C4 witness: the sweep of "e T" has ended with two Candidates, the second
\* symbol of the pool discovered before the first.
C4_Witness ==
    /\ pc = "check"
    /\ query = C4_Query
    /\ sweepCalls = Len(C4_Variants) * Len(C4_Suffixes)
    /\ Len(results) = 2
    /\ results[1].symbol = SymbolPool[2]
    /\ results[2].symbol = SymbolPool[1]

\* the table entries whose company name contains the lower-cased query
C5_Matching ==
    {k \in DOMAIN common_stocks :
        \E i \in 0..Len(common_stocks[k].name) :
            i + Len(query) <= Len(common_stocks[k].name)
            /\ \A j \in 1..Len(query) :
                 LowerChar(common_stocks[k].name[i + j]) = LowerChar(query[j])}

\* C5: the fallback table is consulted iff the direct lookup failed and the
\* sweep produced no Candidate; then every Candidate of the result is a table
\* entry whose company name contains the query (case-insensitive), and the
\* provider is called for no table entry whose name does not contain it.
C5_FallbackOnlyWhenEmpty ==
    /\ fbProbed # {} => fbConsulted
    /\ fbProbed \subseteq C5_Matching
    /\ pc \in {"fallback", "return", "done"} =>
          (fbConsulted <=> (~directHit /\ sweepHits = {}))
    /\ fbConsulted =>
          \A i \in DOMAIN results :
              \E k \in fbProbed : common_stocks[k].symbol = results[i].symbol

\* C5 witness: the query "T" found nothing in the sweep and the table gave
\* two of its four matching entries.
C5_Witness ==
    /\ pc = "done"
    /\ query = <<"T">>
    /\ fbConsulted
    /\ Cardinality(fbProbed) = 4
    /\ Len(results) = 2

\* C11: once the direct lookup has failed, no failing probe (exception, falsy
\* answer, incomplete record) aborts the sweep: the probes of the 6 variants x
\* 6 suffixes are issued one after the other, in order, and only after the
\* 36th does the function decide whether to scan the fallback table.
C11_SweepNeverAborted ==
    /\ [][pc = "sweep" =>
            /\ probe'.ticker = variations(query)[vi] \o suffixes[si]
            /\ sweepCalls' = sweepCalls + 1
            /\ pc' = (IF sweepCalls' = 36 THEN "check" ELSE "sweep")
            /\ pc' = "sweep" =>
                 /\ vi' = (sweepCalls' \div 6) + 1
                 /\ si' = (sweepCalls' % 6) + 1]_vars
    /\ [](pc = "sweep" => sweepCalls = 6 * (vi - 1) + (si - 1) /\ sweepCalls < 36)
    /\ [](pc \in {"check", "fallback", "return"} => sweepCalls = 36)
    /\ []((pc = "done" /\ ~directHit) => sweepCalls = 36)
    /\ [](fbConsulted => sweepCalls = 36)

\* C11 witness: the first probe of the sweep found a symbol, the 36th raised,
\* and the sweep has ended after all 36 probes.
C11_Witness ==
    /\ pc = "check"
    /\ sweepCalls = 36
    /\ probe.info.kind = "raise"
    /\ probe.ticker = variations(query)[6] \o suffixes[6]
    /\ Len(results) = 1

\* C12 as stated: every Candidate appended, in any tier, comes from a record
\* that carries both a symbol and a display name, and has that record's symbol.
C12_AllTiersWellFormed ==
    [][Len(results') > Len(results) =>
         /\ probe'.info.kind = "record"
         /\ probe'.info.hasSymbol
         /\ probe'.info.hasLongName
         /\ results'[Len(results')].symbol = probe'.info.symbol]_vars

\* C12 amended: a Candidate of the direct lookup or of the sweep comes from a
\* record that carries both a symbol and a display name, and has that record's
\* symbol and name; a Candidate of the fallback tier comes from a record that
\* carries a display name (a symbol is not required), and has the symbol of
\* the table entry and the record's name.
C12_WellFormedPerTier ==
    [][Len(results') > Len(results) =>
         /\ Len(results') = Len(results) + 1
         /\ SubSeq(results', 1, Len(results)) = results
         /\ probe'.info.kind = "record"
         /\ probe'.info.hasLongName
         /\ results'[Len(results')].name = probe'.info.longName
         /\ pc \in {"direct", "sweep", "fallback"}
         /\ pc \in {"direct", "sweep"} =>
              /\ probe'.info.hasSymbol
              /\ results'[Len(results')].symbol = probe'.info.symbol
         /\ pc = "fallback" =>
              /\ results'[Len(results')].symbol = common_stocks[fi].symbol
              /\ probe'.ticker = common_stocks[fi].symbol]_vars

\* C12 witness: the fallback tier has appended the last table entry from a
\* record that has a display name and no symbol.
C12_Witness ==
    /\ pc = "return"
    /\ fbConsulted
    /\ probe.info.kind = "record"
    /\ probe.info.hasLongName
    /\ ~probe.info.hasSymbol
    /\ results # <<>>
    /\ results[Len(results)].symbol = common_stocks[Len(common_stocks)].symbol

(***************************************************************************)
(* get_world_indices and get_top_movers                                    *)
(***************************************************************************)
indices ==
    << [symbol |-> "^GSPC", name |-> "S&P 500"],
       [symbol |-> "^DJI", name |-> "Dow Jones"],
       [symbol |-> "^IXIC", name |-> "NASDAQ"],
       [symbol |-> "^FTSE", name |-> "FTSE 100"],
       [symbol |-> "^N225", name |-> "Nikkei 225"],
       [symbol |-> "^HSI", name |-> "Hang Seng"],
       [symbol |-> "^GDAXI", name |-> "DAX"],
       [symbol |-> "^FCHI", name |-> "CAC 40"] >>

stocks ==
    <<
       "AAPL", "MSFT", "GOOGL", "AMZN", "NVDA", "META", "TSLA", "JPM",
       "V", "WMT", "PG", "MA", "UNH", "HD", "BAC", "XOM",
       "PFE", "DIS", "NFLX", "COIN", "AMD", "INTC", "CSCO", "VZ",
       "T", "PEP", "KO", "ADBE", "CRM", "ORCL" >>

\* `gainers[:10]`, `losers[:10]`
TopN == 10

\* The provider answers freely for the first NumFree symbols of a list; for
\* the others it answers as the background `bg` says.
NumFree == 3

\* hist['Close'] of the answers for the first NumFree symbols (oldest first)
FreeCloses ==
    { <<>>, <<100>>, <<100, 110>>, <<110, 100>>, <<100, 100>>, <<90, 100, 110>> }

\* stock.info: the access raises, or yields None/{}, or a mapping without or
\* with the key 'longName'
InfoKinds == {"raise", "empty", "noname", "named"}

Backgrounds == {"gain", "loss", "short", "raise", "example"}

\* closes whose change% values are +5, -3, +8, -1
ExampleCloses == << <<100, 105>>, <<100, 97>>, <<100, 108>>, <<100, 99>> >>

\* what the provider answered for one symbol: history() raised or returned
\* `closes`; info is "unused" when the code did not get to read it
Resp(histRaised, closes, info) ==
    [histRaised |-> histRaised, closes |-> closes, info |-> info]

\* the answer for the i-th symbol of a list of n under background b
Background(b, i, n) ==
    CASE b = "gain"    -> Resp(FALSE, <<100, 100 + i>>, "named")
      [] b = "loss"    -> Resp(FALSE, <<100, 100 - i>>, "named")
      [] b = "short"   -> Resp(FALSE, <<100>>, "named")
      [] b = "raise"   -> Resp(TRUE, <<>>, "unused")
      [] b = "example" -> IF i > n - Len(ExampleCloses)
                          THEN Resp(FALSE, ExampleCloses[i - (n - Len(ExampleCloses))], "named")
                          ELSE Resp(FALSE, <<100>>, "named")

\* get_world_indices never reads stock.info
IndexResponses(i) ==
    IF i <= NumFree
    THEN {Resp(TRUE, <<>>, "unused")} \cup {Resp(FALSE, c, "unused") : c \in FreeCloses}
    ELSE {[Background(bg, i, Len(indices)) EXCEPT !.info = "unused"]}

MoverResponses(i) ==
    IF i <= NumFree
    THEN {Resp(TRUE, <<>>, "unused")}
         \cup {Resp(FALSE, c, inf) : c \in FreeCloses, inf \in InfoKinds}
    ELSE {Background(bg, i, Len(stocks))}

\* `len(hist) >= 2`
EnoughSessions(closes) == Len(closes) >= 2

\* `info and 'longName' in info`
HasLongName(info) == info = "named"

\* hist['Close'].iloc[-1]
Current(closes) == closes[Len(closes)]

\* mutant of PrevClose: the first session instead of the second-to-last
PrevCloseFirst(closes) == closes[1]

\* hist['Close'].iloc[-2]
PrevClose(closes) == closes[Len(closes) - 1]

\* a number as the fraction num/den, den > 0
Frac(num, den) == [num |-> num, den |-> den]

\* `(change / prev_close) * 100`; closes are positive
ChangePct(closes) ==
    Frac(100 * (Current(closes) - PrevClose(closes)), PrevClose(closes))

Positive(x) == x.num > 0

Less(x, y) == x.num * y.den < y.num * x.den

Abs(n) == IF n < 0 THEN -n ELSE n

\* a / b rounded to the nearest integer, ties to even (a >= 0, b > 0)
RoundHalfEven(a, b) ==
    LET q == a \div b
        r == a % b
    IN  IF 2 * r < b THEN q
        ELSE IF 2 * r > b THEN q + 1
        ELSE IF q % 2 = 0 THEN q ELSE q + 1

\* f"{x:,.2f}" (plus = FALSE) and f"{x:+,.2f}" (plus = TRUE): the sign shown
\* and the digits as a number of hundredths
Format2f(x, plus) ==
    [sign |-> IF x.num < 0 THEN "-" ELSE IF plus THEN "+" ELSE "",
     hundredths |-> RoundHalfEven(100 * Abs(x.num), x.den)]

\* `'green' if change_pct > 0 else 'red'`
ChangeColor(change_pct) == IF Positive(change_pct) THEN "green" ELSE "red"

\* the dict appended to `data` in get_world_indices
IndexRecord(name, closes) ==
    [Index |-> name,
     Price |-> Format2f(Frac(Current(closes), 1), FALSE),
     Change |-> Format2f(Frac(Current(closes) - PrevClose(closes), 1), TRUE),
     ChangePercent |-> Format2f(ChangePct(closes), TRUE),
     Change_Color |-> ChangeColor(ChangePct(closes))]

\* the dict `data` of get_top_movers
MoverRecord(symbol, closes) ==
    [Symbol |-> symbol,
     Name |-> ProviderName,
     Price |-> Format2f(Frac(Current(closes), 1), FALSE),
     Change |-> Format2f(Frac(Current(closes) - PrevClose(closes), 1), TRUE),
     ChangePercent |-> Format2f(ChangePct(closes), TRUE),
     Change_Color |-> ChangeColor(ChangePct(closes))]

\* mutant of IsGainer: a zero change counts as a gain
IsGainerOrFlat(change_pct) == change_pct.num >= 0

\* `if change_pct > 0`
IsGainer(change_pct) == Positive(change_pct)

\* mutant of MoverQualifies: the display name is not required
MoverQualifiesNoName(r) == EnoughSessions(r.closes)

\* `len(hist) >= 2 and info and 'longName' in info`
MoverQualifies(r) == EnoughSessions(r.closes) /\ HasLongName(r.info)

\* `len(hist) >= 2`
IndexQualifies(r) == EnoughSessions(r.closes)

\* history() or stock.info raised
Raised(r) == r.histRaised \/ r.info = "raise"

\* x goes before y in sorted(..., key=lambda x: x[0], reverse=reverse)
Before(x, y, reverse) == IF reverse THEN Less(y[1], x[1]) ELSE Less(x[1], y[1])

\* x inserted into the sorted list after every entry it does not go before
RECURSIVE Insert(_, _, _)
Insert(x, list, reverse) ==
    IF list = <<>> THEN <<x>>
    ELSE IF Before(x, Head(list), reverse) THEN <<x>> \o list
    ELSE <<Head(list)>> \o Insert(x, Tail(list), reverse)

\* sorted(list, key=lambda x: x[0], reverse=reverse): a stable sort
RECURSIVE SortedFrom(_, _, _)
SortedFrom(list, acc, reverse) ==
    IF list = <<>> THEN acc
    ELSE SortedFrom(Tail(list), Insert(Head(list), acc, reverse), reverse)

\* mutant of sorted: ascending whatever `reverse` says
sortedAscending(list, reverse) == SortedFrom(list, <<>>, FALSE)

sorted(list, reverse) == SortedFrom(list, <<>>, reverse)

\* `[x[1] for x in list[:n]]`
FirstData(list, n) ==
    [i \in 1..(IF Len(list) < n THEN Len(list) ELSE n) |-> list[i][2]]

\* search_stock is not running
SearchIdle ==
    /\ query = <<>>
    /\ pc = "idle"
    /\ vi = 0
    /\ si = 0
    /\ fi = 0
    /\ results = <<>>
    /\ seen_symbols = {}
    /\ ret = "idle"
    /\ probe = NoProbe
    /\ calls = 0
    /\ sweepCalls = 0
    /\ directHit = FALSE
    /\ sweepHits = {}
    /\ fbConsulted = FALSE
    /\ fbProbed = {}

MarketInit ==
    /\ fn \in {"indices", "movers"}
    /\ bg \in Backgrounds
    /\ mpc = "loop"
    /\ pos = 1
    /\ data = <<>>
    /\ gainers = <<>>
    /\ losers = <<>>
    /\ top_gainers = <<>>
    /\ top_losers = <<>>
    /\ resp = Resp(FALSE, <<>>, "unused")
    /\ mret = "running"
    /\ qualified = {}
    /\ SearchIdle
    /\ FetchIdle
    /\ AppIdle

\* lines 22-41: one iteration of the loop of get_world_indices
IndexFetch ==
    /\ fn = "indices"
    /\ mpc = "loop"
    /\ \E r \in IndexResponses(pos) :
        LET ok == ~Raised(r) /\ IndexQualifies(r) IN
        /\ resp' = r
        /\ IF Raised(r) /\ Landing("index") = "uncaught"
           THEN /\ mret' = "raised"
                /\ mpc' = "done"
                /\ UNCHANGED <<pos, data, qualified>>
           ELSE /\ data' = IF ok THEN Append(data, IndexRecord(indices[pos].name, r.closes))
                           ELSE data
                /\ qualified' = IF ok THEN qualified \cup {pos} ELSE qualified
                /\ pos' = IF pos = Len(indices) THEN pos ELSE pos + 1
                /\ mpc' = IF pos = Len(indices) THEN "return" ELSE "loop"
                /\ mret' = mret
    /\ UNCHANGED <<fn, bg, gainers, losers, top_gainers, top_losers>>
    /\ UNCHANGED <<searchVars, fetchVars, appVars>>

\* line 43: `return pd.DataFrame(data)`
IndicesReturn ==
    /\ fn = "indices"
    /\ mpc = "return"
    /\ mpc' = "done"
    /\ mret' = "returned"
    /\ UNCHANGED <<fn, bg, pos, data, gainers, losers, top_gainers, top_losers,
                   resp, qualified>>
    /\ UNCHANGED <<searchVars, fetchVars, appVars>>

\* lines 60-87: one iteration of the loop of get_top_movers
MoverFetch ==
    /\ fn = "movers"
    /\ mpc = "loop"
    /\ \E r \in MoverResponses(pos) :
        LET ok == ~Raised(r) /\ MoverQualifies(r)
            entry == <<ChangePct(r.closes), MoverRecord(stocks[pos], r.closes)>>
        IN
        /\ resp' = r
        /\ IF Raised(r) /\ Landing("mover") = "uncaught"
           THEN /\ mret' = "raised"
                /\ mpc' = "done"
                /\ UNCHANGED <<pos, gainers, losers, qualified>>
           ELSE /\ gainers' = IF ok /\ IsGainer(entry[1]) THEN Append(gainers, entry)
                              ELSE gainers
                /\ losers' = IF ok /\ ~IsGainer(entry[1]) THEN Append(losers, entry)
                             ELSE losers
                /\ qualified' = IF ok THEN qualified \cup {pos} ELSE qualified
                /\ pos' = IF pos = Len(stocks) THEN pos ELSE pos + 1
                /\ mpc' = IF pos = Len(stocks) THEN "return" ELSE "loop"
                /\ mret' = mret
    /\ UNCHANGED <<fn, bg, data, top_gainers, top_losers>>
    /\ UNCHANGED <<searchVars, fetchVars, appVars>>

\* lines 90-96: sort, keep the first ten of each list, return
RankMovers ==
    /\ fn = "movers"
    /\ mpc = "return"
    /\ gainers' = sorted(gainers, TRUE)
    /\ losers' = sorted(losers, FALSE)
    /\ top_gainers' = FirstData(gainers', TopN)
    /\ top_losers' = FirstData(losers', TopN)
    /\ mpc' = "done"
    /\ mret' = "returned"
    /\ UNCHANGED <<fn, bg, pos, data, resp, qualified>>
    /\ UNCHANGED <<searchVars, fetchVars, appVars>>

MarketNext == IndexFetch \/ IndicesReturn \/ MoverFetch \/ RankMovers

SpecMarket == MarketInit /\ [][MarketNext]_vars

(***************************************************************************)
(* Claims about get_world_indices and get_top_movers                       *)
(***************************************************************************)
\* the provider's answer did not raise, has two sessions or more and, for the
\* movers, a display name
C6_Qualifies(r) ==
    /\ ~r.histRaised
    /\ r.info # "raise"
    /\ Len(r.closes) >= 2
    /\ fn = "movers" => r.info = "named"

\* `after` is `before` with one more entry at its end
C6_Grown(before, after) ==
    /\ Len(after) = Len(before) + 1
    /\ SubSeq(after, 1, Len(before)) = before

MoverSymbols(list) == {list[i][2].Symbol : i \in DOMAIN list}

C7_Appended(before, after) == Len(after) = Len(before) + 1

\* the record `rec` is computed from the closes `last` and `prev`
C7_From(rec, last, prev) ==
    /\ rec.Price = [sign |-> "", hundredths |-> 100 * last]
    /\ rec.Change = [sign |-> IF last < prev THEN "-" ELSE "+",
                     hundredths |-> 100 * (IF last < prev THEN prev - last ELSE last - prev)]
    /\ rec.ChangePercent.sign = (IF last < prev THEN "-" ELSE "+")
       \* the percentage shown is the exact one rounded to two decimals
    /\ LET exact10000 == 10000 * (IF last < prev THEN prev - last ELSE last - prev)
           shown == rec.ChangePercent.hundredths * prev
       IN  /\ 2 * (shown - exact10000) <= prev
           /\ 2 * (exact10000 - shown) <= prev
    /\ rec.Change_Color = (IF last > prev THEN "green" ELSE "red")
    /\ (prev = 100 /\ last = 110) =>
          /\ rec.Change = [sign |-> "+", hundredths |-> 1000]
          /\ rec.ChangePercent = [sign |-> "+", hundredths |-> 1000]
          /\ rec.Change_Color = "green"

\* C7: every index or mover record is computed from the two most recent
\* sessions the provider returned, also when it returned more than two:
\* change = last close - second-to-last close, change% = change /
\* second-to-last close * 100, tag green iff change% > 0 and red otherwise;
\* closes [100, 110] give change +10, change% +10, tag green.
C7_TwoMostRecentSessions ==
    [][mpc = "loop" =>
         LET c == resp'.closes
             last == c[Len(c)]
             prev == c[Len(c) - 1]
         IN
         /\ C7_Appended(data, data') => C7_From(data'[Len(data')], last, prev)
         /\ C7_Appended(gainers, gainers') =>
               /\ C7_From(gainers'[Len(gainers')][2], last, prev)
               /\ gainers'[Len(gainers')][1].num * prev
                    = 100 * (last - prev) * gainers'[Len(gainers')][1].den
         /\ C7_Appended(losers, losers') =>
               /\ C7_From(losers'[Len(losers')][2], last, prev)
               /\ losers'[Len(losers')][1].num * prev
                    = 100 * (last - prev) * losers'[Len(losers')][1].den]_vars

\* C7 witness: the provider returned three sessions 90, 100, 110 for an index
\* and its record shows change +10.00 and +10.00%.
C7_Witness ==
    /\ fn = "indices"
    /\ resp.closes = <<90, 100, 110>>
    /\ data # <<>>
    /\ data[Len(data)].Index = indices[pos - 1].name
    /\ data[Len(data)].Change = [sign |-> "+", hundredths |-> 1000]
    /\ data[Len(data)].ChangePercent = [sign |-> "+", hundredths |-> 1000]
    /\ data[Len(data)].Change_Color = "green"

\* the number of hundredths a formatted value shows, with its sign
Signed(f) == IF f.sign = "-" THEN -f.hundredths ELSE f.hundredths

ShownPercents(frame) == [i \in DOMAIN frame |-> Signed(frame[i].ChangePercent)]

\* C8: get_top_movers returns top_gainers sorted by change% descending and
\* top_losers sorted by change% ascending, each of at most 10 entries; they are
\* the first 10 of the sorted lists, so that every entry left out has a change%
\* no larger (gainers) or no smaller (losers) than every entry kept. For change%
\* values [+5, -3, +8, -1] the result is gainers [+8, +5], losers [-3, -1].
C8_SortedTopTen ==
    /\ [][(fn = "movers" /\ mpc = "return") =>
            /\ Range(gainers') = Range(gainers) /\ Len(gainers') = Len(gainers)
            /\ Range(losers') = Range(losers) /\ Len(losers') = Len(losers)]_vars
    /\ []((fn = "movers" /\ mpc = "done") =>
            /\ Len(top_gainers) <= 10
            /\ Len(top_losers) <= 10
            /\ Len(top_gainers) = (IF Len(gainers) > 10 THEN 10 ELSE Len(gainers))
            /\ Len(top_losers) = (IF Len(losers) > 10 THEN 10 ELSE Len(losers))
            /\ \A i \in DOMAIN top_gainers : top_gainers[i] = gainers[i][2]
            /\ \A i \in DOMAIN top_losers : top_losers[i] = losers[i][2]
            /\ \A i, j \in DOMAIN gainers :
                 i < j => gainers[i][1].num * gainers[j][1].den
                            >= gainers[j][1].num * gainers[i][1].den
            /\ \A i, j \in DOMAIN losers :
                 i < j => losers[i][1].num * losers[j][1].den
                            <= losers[j][1].num * losers[i][1].den
            /\ \A i, j \in DOMAIN top_gainers :
                 i < j => ShownPercents(top_gainers)[i] >= ShownPercents(top_gainers)[j]
            /\ \A i, j \in DOMAIN top_losers :
                 i < j => ShownPercents(top_losers)[i] <= ShownPercents(top_losers)[j]
            /\ (bg = "example" /\ Cardinality(qualified) = Len(ExampleCloses)
                /\ \A p \in qualified : p > NumFree) =>
                  /\ ShownPercents(top_gainers) = <<800, 500>>
                  /\ ShownPercents(top_losers) = <<-300, -100>>)

\* C8 witness: more than ten symbols gained, ten were returned, and the list
\* returned starts with the largest change%.
C8_Witness ==
    /\ fn = "movers"
    /\ mpc = "done"
    /\ Len(gainers) > 10
    /\ Len(top_gainers) = 10
    /\ Len(top_losers) = 2
    /\ ShownPercents(top_gainers)[1] = 100 * Len(stocks)
    /\ ShownPercents(top_losers) = <<-909, 0>>

\* C9: get_top_movers partitions the qualifying symbols by the sign of
\* change%: every gainer has change% > 0, every loser change% <= 0 (a zero
\* change is a loser), no symbol is in both lists, and before the truncation
\* every qualifying symbol is in exactly one of them.
C9_PartitionBySign ==
    fn = "movers" =>
        /\ \A i \in DOMAIN gainers : gainers[i][1].num > 0 /\ gainers[i][1].den > 0
        /\ \A i \in DOMAIN losers : losers[i][1].num <= 0 /\ losers[i][1].den > 0
        /\ \A i \in DOMAIN top_gainers :
             top_gainers[i].Change.sign = "+" /\ top_gainers[i].Change.hundredths > 0
        /\ \A i \in DOMAIN top_losers :
             top_losers[i].Change.sign = "-" \/ top_losers[i].Change.hundredths = 0
        /\ MoverSymbols(gainers) \cap MoverSymbols(losers) = {}
        /\ {top_gainers[i].Symbol : i \in DOMAIN top_gainers}
             \cap {top_losers[i].Symbol : i \in DOMAIN top_losers} = {}
        /\ \A p \in qualified :
             (stocks[p] \in MoverSymbols(gainers)) # (stocks[p] \in MoverSymbols(losers))
        /\ Cardinality(MoverSymbols(gainers)) = Len(gainers)
        /\ Cardinality(MoverSymbols(losers)) = Len(losers)

\* C9 witness: a symbol whose two closes are equal has been returned among the
\* losers, next to a gainer.
C9_Witness ==
    /\ fn = "movers"
    /\ mpc = "done"
    /\ Len(top_gainers) = 1
    /\ \E i \in DOMAIN top_losers :
         /\ top_losers[i].Change = [sign |-> "+", hundredths |-> 0]
         /\ top_losers[i].Change_Color = "red"

(***************************************************************************)
(* get_stock_data                                                          *)
(***************************************************************************)
\* the values of `period` the application passes
Periods == {"1d", "5d", "1mo", "6mo", "ytd", "1y", "5y", "max"}

\* `'1m' if period in ['1d', '5d'] else '1d'`
IntervalOf(p) == IF p \in {"1d", "5d"} THEN "1m" ELSE "1d"

\* a value that is not None
Some(v) == [none |-> FALSE, value |-> v]

FetchInit ==
    /\ period \in Periods
    /\ interval = "none"
    /\ gpc = "history"
    /\ gresp = Resp(FALSE, <<>>, "unused")
    /\ ghist = None
    /\ ginfo = None
    /\ gret = "running"
    /\ SearchIdle
    /\ MarketIdle
    /\ AppIdle

\* the `except Exception` clause of get_stock_data: `return None, None`
FetchFailed ==
    /\ gpc' = "done"
    /\ ghist' = None
    /\ ginfo' = None
    /\ gret' = IF Landing("fetch") = "fetch" THEN "returned" ELSE "raised"

\* lines 187-190: yf.Ticker(symbol), the interval, stock.history(...)
FetchHistory ==
    /\ gpc = "history"
    /\ interval' = IntervalOf(period)
    /\ \E r \in {Resp(TRUE, <<>>, "unused")} \cup {Resp(FALSE, c, "unused") : c \in FreeCloses} :
        /\ gresp' = r
        /\ IF r.histRaised
           THEN FetchFailed
           ELSE /\ gpc' = "info"
                /\ UNCHANGED <<ghist, ginfo, gret>>
    /\ UNCHANGED period
    /\ UNCHANGED <<searchVars, marketVars, appVars>>

\* lines 191-192: stock.info, `return hist, info`
FetchInfo ==
    /\ gpc = "info"
    /\ \E inf \in InfoKinds :
        /\ gresp' = [gresp EXCEPT !.info = inf]
        /\ IF inf = "raise"
           THEN FetchFailed
           ELSE /\ gpc' = "done"
                /\ ghist' = Some(gresp.closes)
                /\ ginfo' = Some(inf)
                /\ gret' = "returned"
    /\ UNCHANGED <<period, interval>>
    /\ UNCHANGED <<searchVars, marketVars, appVars>>

FetchNext == FetchHistory \/ FetchInfo

SpecFetch == FetchInit /\ [][FetchNext]_vars

(***************************************************************************)
(* Claims about get_stock_data                                             *)
(***************************************************************************)
\* the provider raised, or answered without sessions or without display name
C10_ProviderErrorOrMalformed ==
    \/ gresp.histRaised
    \/ gresp.info = "raise"
    \/ gresp.closes = <<>>
    \/ gresp.info \in {"empty", "noname"}

\* C10: get_stock_data never raises to its caller; on a provider error or a
\* malformed response it returns None for both outputs; and the history and
\* the metadata are either both returned or both None.
C10_NotFoundOnBadResponse ==
    /\ gret # "raised"
    /\ gpc = "done" =>
          /\ gret = "returned"
          /\ ghist.none <=> ginfo.none
          /\ C10_ProviderErrorOrMalformed => (ghist = None /\ ginfo = None)

(***************************************************************************)
(* The application script (src/app.py): main and show_stock_details.       *)
(* A script run executes main() from the top; st.experimental_rerun ends   *)
(* the run at once and starts the next one with the same widget values and *)
(* session state. The data functions are called for their results only:    *)
(* search_stock returns a list without duplicate symbols, the two market   *)
(* functions return frames of some number of rows.                         *)
(***************************************************************************)
\* the text the user may have typed in the search box
AppQueries == {<<>>} \cup Queries

\* the lists `search_stock(search_query.upper())` may return
SearchOutcomes ==
    {<<>>}
    \cup {<<Candidate(x, ProviderName)>> : x \in ProviderSymbols}
    \cup UNION {{<<Candidate(x, ProviderName), Candidate(y, ProviderName)>> :
                    y \in ProviderSymbols \ {x}} : x \in ProviderSymbols}

\* numbers of rows of the frame get_world_indices() may return
IndicesRows == {0, 1, Len(indices)}

\* numbers of rows of each frame get_top_movers() may return
MoversRows == {0, 1, TopN}

\* list(frame.index) of a frame of n rows
RowIndex(n) == [i \in 1..n |-> i - 1]

\* mutant of ShowStockDetailsBody: the refresh comes after the rendering
ShowStockDetailsRefreshLast ==
    <<"st.empty", "st.caption", "get_stock_data", "render", "st.experimental_rerun">>

\* the statements of show_stock_details, in program order: lines 23, 25, 26,
\* 28-29 and 31-119
ShowStockDetailsBody ==
    <<"st.empty", "st.caption", "st.experimental_rerun", "get_stock_data", "render">>

\* the statements executed: st.experimental_rerun raises the exception that
\* ends the script run, nothing after it runs
RECURSIVE UntilRerun(_)
UntilRerun(body) ==
    IF body = <<>> THEN <<>>
    ELSE IF Head(body) = "st.experimental_rerun" THEN <<Head(body)>>
    ELSE <<Head(body)>> \o UntilRerun(Tail(body))

\* a call of show_stock_details; `next` is where main() goes on if it returns
ShowStockDetails(next) ==
    /\ entered' = TRUE
    /\ executed' = UntilRerun(ShowStockDetailsBody)
    /\ apc' = IF "st.experimental_rerun" \in Range(executed') THEN "rerun" ELSE next

AppInit ==
    /\ search_query = <<>>
    /\ apc = "tab1"
    /\ appResults = <<>>
    /\ selected_indices_row = <<>>
    /\ selected_gainers_row = <<>>
    /\ selected_losers_row = <<>>
    /\ entered = FALSE
    /\ executed = <<>>
    /\ SearchIdle
    /\ MarketIdle
    /\ FetchIdle

\* a new script run: lines 121-137 (styles, title, text input, tabs)
NewRun ==
    /\ apc' = "tab1"
    /\ appResults' = <<>>
    /\ entered' = FALSE
    /\ executed' = <<>>
    /\ UNCHANGED <<selected_indices_row, selected_gainers_row, selected_losers_row>>

\* the run requested by st.experimental_rerun: the widgets keep their values
Rerun ==
    /\ apc = "rerun"
    /\ NewRun
    /\ UNCHANGED search_query
    /\ UNCHANGED <<searchVars, marketVars, fetchVars>>

\* the user changes the text of the search box after a run has ended
UserTypes ==
    /\ apc \in {"completed", "crashed"}
    /\ \E q \in AppQueries \ {search_query} : search_query' = q
    /\ NewRun
    /\ UNCHANGED <<searchVars, marketVars, fetchVars>>

\* lines 139-161: the "Stock Details" tab
StockDetailsTab ==
    /\ apc = "tab1"
    /\ IF search_query = <<>>
       THEN /\ apc' = "tab2"
            /\ UNCHANGED <<appResults, entered, executed>>
       ELSE \E res \in SearchOutcomes :
              /\ appResults' = res
              /\ IF res # <<>>
                 THEN ShowStockDetails("tab2")
                 ELSE /\ apc' = "tab2"
                      /\ UNCHANGED <<entered, executed>>
    /\ UNCHANGED <<search_query, selected_indices_row, selected_gainers_row,
                   selected_losers_row>>
    /\ UNCHANGED <<searchVars, marketVars, fetchVars>>

\* lines 163-216: the "World Indices" tab; dropping 'Change_Color' from a
\* frame without rows (and so without columns) raises KeyError
WorldIndicesTab ==
    /\ apc = "tab2"
    /\ \E n \in IndicesRows :
        IF n = 0
        THEN /\ apc' = "crashed"
             /\ UNCHANGED <<selected_indices_row, entered, executed>>
        ELSE IF RowIndex(n) # selected_indices_row
        THEN /\ selected_indices_row' = RowIndex(n)
             /\ ShowStockDetails("tab3")
        ELSE /\ apc' = "tab3"
             /\ UNCHANGED <<selected_indices_row, entered, executed>>
    /\ UNCHANGED <<search_query, appResults, selected_gainers_row, selected_losers_row>>
    /\ UNCHANGED <<searchVars, marketVars, fetchVars>>

\* lines 218-254: get_top_movers() and the "Top Gainers" column
GainersColumn ==
    /\ apc = "tab3"
    /\ \E n \in MoversRows :
        IF n = 0
        THEN /\ apc' = "crashed"
             /\ UNCHANGED <<selected_gainers_row, entered, executed>>
        ELSE IF RowIndex(n) # selected_gainers_row
        THEN /\ selected_gainers_row' = RowIndex(n)
             /\ ShowStockDetails("losers")
        ELSE /\ apc' = "losers"
             /\ UNCHANGED <<selected_gainers_row, entered, executed>>
    /\ UNCHANGED <<search_query, appResults, selected_indices_row, selected_losers_row>>
    /\ UNCHANGED <<searchVars, marketVars, fetchVars>>

\* lines 256-285: the "Top Losers" column, on the second frame of line 221
LosersColumn ==
    /\ apc = "losers"
    /\ \E n \in MoversRows :
        IF n = 0
        THEN /\ apc' = "crashed"
             /\ UNCHANGED <<selected_losers_row, entered, executed>>
        ELSE IF RowIndex(n) # selected_losers_row
        THEN /\ selected_losers_row' = RowIndex(n)
             /\ ShowStockDetails("footer")
        ELSE /\ apc' = "footer"
             /\ UNCHANGED <<selected_losers_row, entered, executed>>
    /\ UNCHANGED <<search_query, appResults, selected_indices_row, selected_gainers_row>>
    /\ UNCHANGED <<searchVars, marketVars, fetchVars>>

\* lines 287-289: the footer; the run completes
Footer ==
    /\ apc = "footer"
    /\ apc' = "completed"
    /\ UNCHANGED <<search_query, appResults, selected_indices_row, selected_gainers_row,
                   selected_losers_row, entered, executed>>
    /\ UNCHANGED <<searchVars, marketVars, fetchVars>>

AppNext ==
    \/ Rerun
    \/ UserTypes
    \/ StockDetailsTab
    \/ WorldIndicesTab
    \/ GainersColumn
    \/ LosersColumn
    \/ Footer

SpecApp == AppInit /\ [][AppNext]_vars

====
